---- MODULE Spec2Model ----
(***************************************************************************)
(* Transaction submission and confirmation protocol of the disposable      *)
(* smart contracts: TransactionBroadcaster.announce, announcePartial and   *)
(* announceCosignature, run against a node that accepts or rejects         *)
(* submissions and emits status / confirmed / partialAdded /               *)
(* cosignatureAdded events for the account.                                *)
(***************************************************************************)
EXTENDS Integers, Sequences, FiniteSets, TLC

VARIABLES
    flow,        \* which Broadcaster operation this run executes
    pc,          \* position of the async operation body
    listenerOpen,\* confirmedListener.open() has resolved
    subs,        \* handlers registered on the listener, in registration order
    calls,       \* calls made to the node transport, in call order
    mainReq,     \* state of the request awaited by the operation body
    cbs,         \* requests awaited by hash-lock confirmation callbacks
    nodeKnown,   \* hashes the node has accepted
    nodeFailed,  \* hashes for which the node emitted a status error
    nodeConfirmed,\* hashes for which the node emitted a confirmation
    nEmitted,    \* number of events emitted by the node so far
    observed,    \* events dispatched to at least one handler, in order
    lost,        \* events for a submitted hash that reached no handler
    filtered,    \* events on a subscribed channel that every handler filtered out
    reports,     \* terminal reports printed (informSuccess, informError, error)
    infos,       \* informational reports printed (partial / cosignature added)
    exit,        \* <<>> while the process runs, <<code>> after process.exit(code)
    contract,    \* the contract command whose execute() runs ("none": no command)
    cpc,         \* position of the command's execute / executeContract
    lockInput,   \* the --lock input: <<>> or <<amount, asset>>
    pending,     \* partial transactions of the account returned by the node
    cursor,      \* index of the next pending transaction entering the pipe
    signedTx,    \* <<>> or <<the signed transaction of this run>>
    locks,       \* hash lock transactions created by this run, in order
    cosigs,      \* cosignatures produced by this run, in order
    bcalls,      \* calls the command made to the broadcaster, in order
    failAt,      \* index of the parameter whose resolution throws (0: none)
    pcursor,     \* index of the next parameter execute() resolves
    raised,      \* <<>> or <<name of the input whose reading raised an error>>
    yes,         \* the --yes input
    answer,      \* the key the user presses at the final confirmation
    hashInput,   \* the --hash input of PartialCosignature ("": not given)
    resolutions, \* number of OptionsResolver / keyInYN calls made by execute()
    factory,     \* TransactionFactory.$_factory: <<>> (null) or <<the instance>>
    creates,     \* TransactionFactory.create calls and what each returned
    builds,      \* transactions built by the factory, with their arguments
    ppc,         \* position inside configure() and inside STEP 1 / STEP 2
    useCustomNode,\* the key pressed at "Do you want to connect to a custom node?"
    apiUrl,      \* the node URL the user supplies ("": none)
    nodeUrl,     \* Contract.endpointUrl, the node this run talks to
    broadcaster, \* Contract.broadcaster: <<>> or <<the TransactionBroadcaster>>
    connects,    \* number of calls of Contract.connect
    entered,     \* the value the user supplies for the numeric input
    inputs,      \* the inputs object of execute(): amount, supply, divisibility
    tokenCalls,  \* calls of the token command (token.transfer, token.execute)
    namespaceName,\* the name passed to getNamespaceRegistrations
    existing,    \* the namespaces that exist on the network
    nsCalls,     \* existence checks sent to the node, in order
    registerTxes \* getNamespaceRegistrations' list of registrations

\* the broadcaster's and the node's variables
bvars == <<flow, pc, listenerOpen, subs, calls, mainReq, cbs, nodeKnown,
           nodeFailed, nodeConfirmed, nEmitted, observed, lost, filtered,
           reports, infos, exit>>

\* the contract command's variables
\* the inputs of a command and the progress of their resolution
ivars == <<failAt, pcursor, raised, yes, answer, hashInput, resolutions>>

cvars == <<contract, cpc, lockInput, pending, cursor, signedTx, locks, cosigs,
           bcalls, ivars>>

\* the transaction factory's variables
fvars == <<factory, creates, builds>>

\* configure(): the node the run connects to
gvars == <<useCustomNode, apiUrl, nodeUrl, broadcaster, connects>>

\* the numeric input of a command and what is made of it
avars == <<entered, inputs, tokenCalls>>

\* getNamespaceRegistrations and the network's namespaces
nvars == <<namespaceName, existing, nsCalls, registerTxes>>

\* what a command does around its inputs before executeContract
pvars == <<ppc, gvars, avars, nvars>>

vars == <<bvars, cvars, fvars, pvars>>

\* ---------------------------------------------------------------- bounds
\* number of events the node emits in one run
MaxEmit == 4

\* ------------------------------------------------------------ vocabulary
Flows == {"announce", "announcePartial", "announceCosignature"}

\* hashes: single transaction, hash lock, bonded aggregate, parent aggregate
\* of a cosignature, and an unrelated transaction of the same account
hA == "hA"
hL == "hL"
hB == "hB"
hP == "hP"
hX == "hX"
AnyHash == "*"

Channels == {"status", "confirmed", "partialAdded", "cosignatureAdded"}

\* the signed transaction the operation body submits first
FirstHash(f) ==
    CASE f = "announce" -> hA
      [] f = "announcePartial" -> hL
      [] f = "announceCosignature" -> hP

\* as FirstEndpoint, with announce's endpoint in every operation
FirstEndpointAnnounce(f) == "announce"

\* the transport endpoint the operation body calls first
FirstEndpoint(f) ==
    CASE f = "announce" -> "announce"
      [] f = "announcePartial" -> "announce"
      [] f = "announceCosignature" -> "announceAggregateBondedCosignature"

\* the hashes submitted by a flow
FlowHashes(f) ==
    CASE f = "announce" -> {hA}
      [] f = "announcePartial" -> {hL, hB}
      [] f = "announceCosignature" -> {hP}

Running == exit = <<>> /\ pc # "aborted"

\* ------------------------------------------------------------- transport
Call(op, arg, h) == [op |-> op, arg |-> arg, hash |-> h]

Event(c, h) == [chan |-> c, hash |-> h]

\* a handler registered on the listener: the channel, the hash filter given
\* to the listener, the callback, and the signed transaction the callback
\* closes over
Sub(c, h, cb, tx) == [chan |-> c, hash |-> h, cb |-> cb, tx |-> tx]

\* confirmedListener.status(account.address).subscribe(...)
StatusSub(tx) == Sub("status", AnyHash, "fail", tx)

\* confirmedListener.confirmed(account.address, hash).subscribe(...)
ConfirmedSub(h, cb, tx) == Sub("confirmed", h, cb, tx)

\* as AnnounceSubs, with the hash left out of confirmed(address, hash)
AnnounceSubsUnfiltered == << StatusSub(hA), ConfirmedSub(AnyHash, "success", hA) >>

\* handlers the body of announce registers after its submit
AnnounceSubs == << StatusSub(hA), ConfirmedSub(hA, "success", hA) >>

\* as AnnouncePartialSubs, with the hash left out of the hash lock's
\* confirmed(address, hash)
AnnouncePartialSubsUnfilteredLock ==
    << StatusSub(hL), ConfirmedSub(AnyHash, "lockConfirmed", hB) >>

\* as AnnouncePartialSubs, with announce's terminal confirmation handler on
\* the hash lock
AnnouncePartialSubsLockTerminal ==
    << StatusSub(hL), ConfirmedSub(hL, "success", hB) >>

\* handlers the body of announcePartial registers after the hash-lock submit
AnnouncePartialSubs == << StatusSub(hL), ConfirmedSub(hL, "lockConfirmed", hB) >>

\* as LockCallbackSubs, with the success handler reporting the hash lock
LockCallbackSubsReportLock ==
    << Sub("partialAdded", hB, "partialInfo", hB),
       Sub("cosignatureAdded", AnyHash, "cosigInfo", hB),
       ConfirmedSub(hB, "success", hL) >>

\* handlers the hash-lock confirmation callback registers after the bonded
\* aggregate's submit
LockCallbackSubs ==
    << Sub("partialAdded", hB, "partialInfo", hB),
       Sub("cosignatureAdded", AnyHash, "cosigInfo", hB),
       ConfirmedSub(hB, "success", hB) >>

\* handlers the body of announceCosignature registers after its submit
AnnounceCosignatureSubs ==
    << StatusSub(hP), Sub("cosignatureAdded", AnyHash, "cosigSuccess", hP) >>

BodySubs(f) ==
    CASE f = "announce" -> AnnounceSubs
      [] f = "announcePartial" -> AnnouncePartialSubs
      [] f = "announceCosignature" -> AnnounceCosignatureSubs

\* the transport calls that register a sequence of handlers
RECURSIVE SubscribeCalls(_)
SubscribeCalls(ss) ==
    IF ss = <<>> THEN <<>>
    ELSE <<Call("subscribe", Head(ss).chan, Head(ss).hash)>>
         \o SubscribeCalls(Tail(ss))

\* the listener's filter: the channel, and the hash when one was given
Matches(s, e) ==
    /\ s.chan = e.chan
    /\ (s.hash = AnyHash \/ s.hash = e.hash)

\* the listener has subscribed to the event's channel
OnChannel(ss, e) == \E i \in DOMAIN ss : ss[i].chan = e.chan

Matching(ss, e) == SelectSeq(ss, LAMBDA s : Matches(s, e))

\* ---------------------------------------------------------------- reports
Report(kind, h) == [kind |-> kind, hash |-> h]

\* informSuccess(account, signedTransaction)
informSuccess(st, tx) ==
    [st EXCEPT !.reports = Append(@, Report("Confirmed", tx))]

\* informError(error)
informError(st, e) ==
    [st EXCEPT !.reports = Append(@, Report("Failed", e.hash))]

\* informPartialSuccess()
informPartialSuccess(st) == [st EXCEPT !.infos = @ + 1]

\* informCosigSuccess(cosigSignedTransaction)
informCosigSuccess(st, e) == [st EXCEPT !.infos = @ + 1]

\* process.exit(code): the first exit ends the process
processExit(st, code) ==
    IF st.exit = <<>> THEN [st EXCEPT !.exit = <<code>>] ELSE st

\* as ContractError, without the process.exit(1)
ContractErrorNoExit(st) ==
    [st EXCEPT !.reports = Append(@, Report("Failed", "none"))]

\* Contract.error(e): console.error(e); process.exit(1)
ContractError(st) ==
    processExit([st EXCEPT !.reports = Append(@, Report("Failed", "none"))], 1)

\* as OnStatus, without the process.exit(1)
OnStatusNoExit(st, e) == informError(st, e)

\* as OnStatus, with process.exit(0)
OnStatusExitZero(st, e) == processExit(informError(st, e), 0)

\* the status handler: informError(err); process.exit(1)
OnStatus(st, e) == processExit(informError(st, e), 1)

\* the confirmation handler: informSuccess(account, tx); process.exit(0)
OnConfirmed(st, s) == processExit(informSuccess(st, s.tx), 0)

\* the hash-lock confirmation handler up to its await: it calls
\* transactionHttp.announceAggregateBonded(signedPartial)
OnLockConfirmed(st, s) ==
    [st EXCEPT !.calls = Append(@, Call("submit", "announceAggregateBonded", s.tx)),
               !.cbs = Append(@, "sent")]

\* the cosignature handler of announceCosignature
OnCosignatureAdded(st, e) ==
    processExit(
        [informPartialSuccess(informCosigSuccess(st, e))
            EXCEPT !.reports = Append(@, Report("CosignatureAdded", e.hash))], 0)

\* one handler invoked with one event
RunCallback(st, s, e) ==
    CASE s.cb = "fail" -> OnStatus(st, e)
      [] s.cb = "success" -> OnConfirmed(st, s)
      [] s.cb = "lockConfirmed" -> OnLockConfirmed(st, s)
      [] s.cb = "partialInfo" -> informPartialSuccess(st)
      [] s.cb = "cosigInfo" -> informCosigSuccess(st, e)
      [] s.cb = "cosigSuccess" -> OnCosignatureAdded(st, e)

\* the matching handlers run in registration order until the process exits
RECURSIVE Dispatch(_, _, _)
Dispatch(st, ms, e) ==
    IF ms = <<>> \/ st.exit # <<>> THEN st
    ELSE Dispatch(RunCallback(st, Head(ms), e), Tail(ms), e)

\* the broadcaster's explorerUrl and endpointUrl
explorerUrl == "explorerUrl"
endpointUrl == "endpointUrl"

\* error.status of the TransactionStatusError the node sends in event e
StatusCode(e) == <<"status", e.hash>>

\* what informSuccess prints for a report: 'View Transaction: ' + explorerTx
SuccessText(r) ==
    [viewTransaction |-> <<explorerUrl, "/transaction/", r.hash>>]

\* what informError prints for a report: the failure code and linkStatus
ErrorText(r) ==
    [code |-> StatusCode(Event("status", r.hash)),
     viewStatus |-> <<endpointUrl, "/transaction/", r.hash, "/status">>]

ProcState ==
    [reports |-> reports, infos |-> infos, exit |-> exit,
     calls |-> calls, cbs |-> cbs, subs |-> subs]

SetProcState(st) ==
    /\ reports' = st.reports
    /\ infos' = st.infos
    /\ exit' = st.exit
    /\ calls' = st.calls
    /\ cbs' = st.cbs
    /\ subs' = st.subs

\* handlers are registered only when the process is still running
Register(st, ss) ==
    IF st.exit # <<>> THEN st
    ELSE [st EXCEPT !.subs = @ \o ss, !.calls = @ \o SubscribeCalls(ss)]

\* as AfterSubmit, with an empty catch
AfterSubmitSwallow(st, response, ss) == Register(st, ss)

\* as AfterSubmit, with a process.exit(0) at the end of the operation body
AfterSubmitThenExit(st, response, ss) ==
    processExit(Register(IF response = "reject" THEN ContractError(st) ELSE st, ss), 0)

\* what follows "try { await submit } catch (e) { this.contract.error(e) }":
\* the catch on a rejection, then the handler registrations
AfterSubmit(st, response, ss) ==
    Register(IF response = "reject" THEN ContractError(st) ELSE st, ss)

\* ------------------------------------------------------ JavaScript values
\* length of the longest text the user types for one input
MaxLen == 2

Digits == <<"0", "1", "2", "3", "4", "5", "6", "7", "8", "9">>

\* a value of the language: a number, NaN, a string (its characters), undefined
JSNumber(n) == [t |-> "number", n |-> n, s |-> <<>>]

JSString(s) == [t |-> "string", n |-> 0, s |-> s]

NaN == [t |-> "NaN", n |-> 0, s |-> <<>>]

undefined == [t |-> "undefined", n |-> 0, s |-> <<>>]

RECURSIVE DigitsOf(_)
DigitsOf(n) ==
    IF n < 10 THEN <<Digits[n + 1]>>
    ELSE Append(DigitsOf(n \div 10), Digits[(n % 10) + 1])

\* Number.prototype.toString of an integer
NumberToString(n) == IF n < 0 THEN <<"-">> \o DigitsOf(-n) ELSE DigitsOf(n)

\* ToString, the conversion parseInt applies to its argument
JSToString(v) ==
    CASE v.t = "string" -> v.s
      [] v.t = "number" -> NumberToString(v.n)
      [] v.t = "NaN" -> <<"N", "a", "N">>
      [] OTHER -> <<"u", "n", "d", "e", "f", "i", "n", "e", "d">>

RECURSIVE TrimStart(_)
TrimStart(s) ==
    IF s # <<>> /\ Head(s) = " " THEN TrimStart(Tail(s)) ELSE s

RECURSIVE DigitPrefix(_)
DigitPrefix(s) ==
    IF s = <<>> \/ ~\E i \in DOMAIN Digits : Digits[i] = Head(s) THEN <<>>
    ELSE <<Head(s)>> \o DigitPrefix(Tail(s))

RECURSIVE DigitsValue(_)
DigitsValue(s) ==
    IF s = <<>> THEN 0
    ELSE DigitsValue(SubSeq(s, 1, Len(s) - 1)) * 10
             + (CHOOSE i \in DOMAIN Digits : Digits[i] = s[Len(s)]) - 1

\* parseInt(v) without a radix, on a text that carries no 0x prefix: leading
\* blanks and a sign are read, then the longest run of digits; NaN when the
\* run is empty
parseInt(v) ==
    LET str == TrimStart(JSToString(v))
        signed == str # <<>> /\ Head(str) \in {"-", "+"}
        ds == DigitPrefix(IF signed THEN Tail(str) ELSE str)
    IN  IF ds = <<>> THEN NaN
        ELSE IF signed /\ Head(str) = "-" THEN JSNumber(-DigitsValue(ds))
        ELSE JSNumber(DigitsValue(ds))

\* ToNumber, the conversion the relational operators apply to an operand
\* compared with a number: a string must be a decimal literal as a whole,
\* the empty string is 0, undefined is NaN
ToNumber(v) ==
    CASE v.t = "number" -> v
      [] v.t = "string" ->
           LET str == TrimStart(v.s)
               signed == str # <<>> /\ Head(str) \in {"-", "+"}
               body == IF signed THEN Tail(str) ELSE str
           IN  IF str = <<>> THEN JSNumber(0)
               ELSE IF body = <<>> \/ DigitPrefix(body) # body THEN NaN
               ELSE IF Head(str) = "-" THEN JSNumber(-DigitsValue(body))
               ELSE JSNumber(DigitsValue(body))
      [] OTHER -> NaN

\* v < n, v > n and v <= n for a number literal n: false when v is not a number
LessThan(v, n) == ToNumber(v).t = "number" /\ ToNumber(v).n < n

GreaterThan(v, n) == ToNumber(v).t = "number" /\ ToNumber(v).n > n

LessOrEqual(v, n) == ToNumber(v).t = "number" /\ ToNumber(v).n <= n

\* the characters the user types, and the texts made of them
Chars == {"-", "0", "1", "7", "a"}

Texts == UNION {[1..k -> Chars] : k \in 0..MaxLen}

\* the numbers the command line parser hands over for a numeric option
Numbers == -2..8

DEFAULT_NODE_URL == "http://api-01.us-west-1.0941-v1.symboldev.network:3000"

\* the inputs object before STEP 1: the numeric options are not set
NoInputs == [amount |-> undefined, supply |-> undefined, divisibility |-> undefined]

\* no configure() and no preparation step has run
PrepareIdle ==
    /\ ppc = "none"
    /\ useCustomNode = "none"
    /\ apiUrl = ""
    /\ nodeUrl = DEFAULT_NODE_URL
    /\ broadcaster = <<>>
    /\ connects = 0
    /\ entered = undefined
    /\ inputs = NoInputs
    /\ tokenCalls = <<>>
    /\ namespaceName = <<>>
    /\ existing = {}
    /\ nsCalls = <<>>
    /\ registerTxes = <<>>

\* ------------------------------------------------------------------- Init
Init ==
    /\ flow \in Flows
    /\ pc = "configure"
    /\ listenerOpen = FALSE
    /\ subs = <<>>
    /\ calls = <<>>
    /\ mainReq = "none"
    /\ cbs = <<>>
    /\ nodeKnown = {}
    /\ nodeFailed = {}
    /\ nodeConfirmed = {}
    /\ nEmitted = 0
    /\ observed = <<>>
    /\ lost = {}
    /\ filtered = {}
    /\ reports = <<>>
    /\ infos = 0
    /\ exit = <<>>
    /\ contract = "none"
    /\ cpc = "done"
    /\ lockInput = <<>>
    /\ pending = <<>>
    /\ cursor = 1
    /\ signedTx = <<>>
    /\ locks = <<>>
    /\ cosigs = <<>>
    /\ bcalls = <<>>
    /\ failAt = 0
    /\ pcursor = 1
    /\ raised = <<>>
    /\ yes = FALSE
    /\ answer = "none"
    /\ hashInput = ""
    /\ resolutions = 0
    /\ factory = <<>>
    /\ creates = <<>>
    /\ builds = <<>>
    /\ PrepareIdle

\* ---------------------------------------------------------------- actions
\* Contract.configure: connect() reads the first block of the node and
\* creates the factory and the broadcaster
ConnectOk ==
    /\ Running /\ pc = "configure"
    /\ pc' = "idle"
    /\ UNCHANGED <<flow, listenerOpen, subs, calls, mainReq, cbs, nodeKnown,
                   nodeFailed, nodeConfirmed, nEmitted, observed, lost, filtered,
                   reports, infos, exit>>
    /\ UNCHANGED cvars
    /\ UNCHANGED fvars
    /\ UNCHANGED pvars

\* connect() throws (the node cannot be reached): configure's catch, or the
\* catch around configure in execute, calls Contract.error
ConnectFail ==
    /\ Running /\ pc = "configure"
    /\ SetProcState(ContractError(ProcState))
    /\ UNCHANGED <<flow, pc, listenerOpen, mainReq, nodeKnown, nodeFailed,
                   nodeConfirmed, nEmitted, observed, lost, filtered>>
    /\ UNCHANGED cvars
    /\ UNCHANGED fvars
    /\ UNCHANGED pvars

\* as Start, with the submit call issued before the listener is opened
StartSubmitFirst ==
    /\ Running /\ pc = "idle"
    /\ pc' = "opening"
    /\ calls' = calls \o << Call("submit", FirstEndpoint(flow), FirstHash(flow)),
                            Call("open", "listener", "none") >>
    /\ UNCHANGED <<flow, listenerOpen, subs, mainReq, cbs, nodeKnown, nodeFailed,
                   nodeConfirmed, nEmitted, observed, lost, filtered, reports, infos, exit>>
    /\ UNCHANGED cvars
    /\ UNCHANGED fvars
    /\ UNCHANGED pvars

\* the operation is invoked: new Listener(endpointUrl); listener.open()
Start ==
    /\ Running /\ pc = "idle"
    /\ pc' = "opening"
    /\ calls' = Append(calls, Call("open", "listener", "none"))
    /\ UNCHANGED <<flow, listenerOpen, subs, mainReq, cbs, nodeKnown, nodeFailed,
                   nodeConfirmed, nEmitted, observed, lost, filtered, reports, infos, exit>>
    /\ UNCHANGED cvars
    /\ UNCHANGED fvars
    /\ UNCHANGED pvars

\* "await confirmedListener.open()" resolves; the body goes on to call the
\* transport's announce endpoint and awaits it
OpenOk ==
    /\ Running /\ pc = "opening"
    /\ listenerOpen' = TRUE
    /\ calls' = Append(calls, Call("submit", FirstEndpoint(flow), FirstHash(flow)))
    /\ mainReq' = "sent"
    /\ pc' = "announcing"
    /\ UNCHANGED <<flow, subs, cbs, nodeKnown, nodeFailed, nodeConfirmed,
                   nEmitted, observed, lost, filtered, reports, infos, exit>>
    /\ UNCHANGED cvars
    /\ UNCHANGED fvars
    /\ UNCHANGED pvars

\* "await confirmedListener.open()" rejects: the operation throws
OpenFail ==
    /\ Running /\ pc = "opening"
    /\ pc' = "aborted"
    /\ UNCHANGED <<flow, listenerOpen, subs, calls, mainReq, cbs, nodeKnown,
                   nodeFailed, nodeConfirmed, nEmitted, observed, lost, filtered,
                   reports, infos, exit>>
    /\ UNCHANGED cvars
    /\ UNCHANGED fvars
    /\ UNCHANGED pvars

\* the node accepts the submission awaited by the body
NodeAccept ==
    /\ Running /\ mainReq = "sent"
    /\ mainReq' = "ack"
    /\ nodeKnown' = nodeKnown \cup {FirstHash(flow)}
    /\ UNCHANGED <<flow, pc, listenerOpen, subs, calls, cbs, nodeFailed,
                   nodeConfirmed, nEmitted, observed, lost, filtered, reports, infos, exit>>
    /\ UNCHANGED cvars
    /\ UNCHANGED fvars
    /\ UNCHANGED pvars

\* the submission awaited by the body fails
NodeReject ==
    /\ Running /\ mainReq = "sent"
    /\ mainReq' = "reject"
    /\ UNCHANGED <<flow, pc, listenerOpen, subs, calls, cbs, nodeKnown, nodeFailed,
                   nodeConfirmed, nEmitted, observed, lost, filtered, reports, infos, exit>>
    /\ UNCHANGED cvars
    /\ UNCHANGED fvars
    /\ UNCHANGED pvars

\* the body resumes after its await on the submission
BodyResume ==
    /\ Running /\ pc = "announcing" /\ mainReq \in {"ack", "reject"}
    /\ SetProcState(AfterSubmit(ProcState, mainReq, BodySubs(flow)))
    /\ pc' = "waiting"
    /\ UNCHANGED <<flow, listenerOpen, mainReq, nodeKnown, nodeFailed, nodeConfirmed,
                   nEmitted, observed, lost, filtered>>
    /\ UNCHANGED cvars
    /\ UNCHANGED fvars
    /\ UNCHANGED pvars

\* the node accepts the bonded aggregate submitted by callback i
CallbackAccept(i) ==
    /\ Running /\ cbs[i] = "sent"
    /\ cbs' = [cbs EXCEPT ![i] = "ack"]
    /\ nodeKnown' = nodeKnown \cup {hB}
    /\ UNCHANGED <<flow, pc, listenerOpen, subs, calls, mainReq, nodeFailed,
                   nodeConfirmed, nEmitted, observed, lost, filtered, reports, infos, exit>>
    /\ UNCHANGED cvars
    /\ UNCHANGED fvars
    /\ UNCHANGED pvars

\* the bonded aggregate's submission by callback i fails
CallbackReject(i) ==
    /\ Running /\ cbs[i] = "sent"
    /\ cbs' = [cbs EXCEPT ![i] = "reject"]
    /\ UNCHANGED <<flow, pc, listenerOpen, subs, calls, mainReq, nodeKnown,
                   nodeFailed, nodeConfirmed, nEmitted, observed, lost, filtered,
                   reports, infos, exit>>
    /\ UNCHANGED cvars
    /\ UNCHANGED fvars
    /\ UNCHANGED pvars

\* callback i resumes after its await on the bonded aggregate's submission
CallbackResume(i) ==
    /\ Running /\ cbs[i] \in {"ack", "reject"}
    /\ SetProcState(AfterSubmit([ProcState EXCEPT !.cbs[i] = "done"],
                                cbs[i], LockCallbackSubs))
    /\ UNCHANGED <<flow, pc, listenerOpen, mainReq, nodeKnown, nodeFailed,
                   nodeConfirmed, nEmitted, observed, lost, filtered>>
    /\ UNCHANGED cvars
    /\ UNCHANGED fvars
    /\ UNCHANGED pvars

\* the events the node can emit for the account
NodeCanEmit(e) ==
    \/ e.hash = hX
    \/ /\ e.chan = "status"
       /\ e.hash \in nodeKnown \ nodeConfirmed
    \/ /\ e.chan = "confirmed"
       /\ e.hash \in nodeKnown \ nodeFailed
    \/ /\ e.chan = "partialAdded"
       /\ e.hash \in (nodeKnown \cap {hB}) \ nodeFailed
    \/ /\ e.chan = "cosignatureAdded"
       /\ e.hash \in (nodeKnown \cap {hB, hP}) \ nodeFailed

\* the node emits an event; the listener hands it to the matching handlers
NodeEmit(e) ==
    /\ Running /\ nEmitted < MaxEmit
    /\ NodeCanEmit(e)
    /\ nEmitted' = nEmitted + 1
    /\ nodeFailed' = IF e.chan = "status" THEN nodeFailed \cup {e.hash} ELSE nodeFailed
    /\ nodeConfirmed' = IF e.chan = "confirmed" THEN nodeConfirmed \cup {e.hash}
                        ELSE nodeConfirmed
    /\ LET ms == Matching(subs, e) IN
         /\ observed' = IF ms = <<>> THEN observed ELSE Append(observed, e)
         /\ lost' = IF ms = <<>> /\ e.hash \in FlowHashes(flow)
                    THEN lost \cup {e} ELSE lost
         /\ filtered' = IF ms = <<>> /\ OnChannel(subs, e)
                        THEN filtered \cup {e} ELSE filtered
         /\ SetProcState(Dispatch(ProcState, ms, e))
    /\ UNCHANGED <<flow, pc, listenerOpen, mainReq, nodeKnown>>
    /\ UNCHANGED cvars
    /\ UNCHANGED fvars
    /\ UNCHANGED pvars

Events == [chan : Channels, hash : {hA, hL, hB, hP, hX}]

Next ==
    \/ ConnectOk
    \/ ConnectFail
    \/ Start
    \/ OpenOk
    \/ OpenFail
    \/ NodeAccept
    \/ NodeReject
    \/ BodyResume
    \/ \E i \in DOMAIN cbs : CallbackAccept(i)
    \/ \E i \in DOMAIN cbs : CallbackReject(i)
    \/ \E i \in DOMAIN cbs : CallbackResume(i)
    \/ \E e \in Events : NodeEmit(e)

Spec == Init /\ [][Next]_vars

\* the event loop runs every continuation whose awaited promise has settled,
\* and the run goes on from configure to the operation; the node is under no
\* obligation to accept, answer or emit
FairSpec ==
    /\ Spec
    /\ WF_vars(ConnectOk \/ ConnectFail)
    /\ WF_vars(Start)
    /\ WF_vars(BodyResume)
    /\ WF_vars(\E i \in DOMAIN cbs : CallbackResume(i))

\* ------------------------------------------------------ contract commands
\* number of partial transactions the node returns for the account
MaxPending == 2

\* ContractConstants.LOCK_MOSAIC and LOCK_AMOUNT, the lock duration in blocks
LOCK_MOSAIC == "519FC24B9223E0B4"
LOCK_AMOUNT == 10000000
LockDuration == 1000

actor == "actor"
other == "other"

\* commands whose executeContract wraps the set with createComplete
CompleteContracts == {"CreateAsset", "AssetEscrow"}

\* commands whose executeContract wraps the set with createBonded
BondedContracts == {"RequestAsset", "EscrowAsset", "AssetRequest"}

\* security-token and governance commands: the library hands over one
\* aggregate bonded transaction, which executeContract takes with shift()
SecurityContracts ==
    {"TransferSecurity", "ModifySecurityRestriction", "AttachPartitionDocument",
     "CreatePartition", "ModifySecurityMetadata", "CreateSecurity",
     "UnlockSecurityBalance"}

GovernanceContracts == {"GovCreateAgreement"}

\* commands whose executeContract only returns true
SilentContracts == {"ListSecurities", "CreateAuthority"}

Contracts ==
    CompleteContracts \cup BondedContracts \cup SecurityContracts
    \cup GovernanceContracts \cup SilentContracts
    \cup {"OpenTimestamp", "PartialCosignature"}

\* as Protocol, with every sending command calling announce
ProtocolAnnounceOnly(c) ==
    CASE c \in SilentContracts -> "none"
      [] c = "PartialCosignature" -> "pipe"
      [] OTHER -> "announce"

\* what the command's executeContract does with its transactions
Protocol(c) ==
    CASE c \in CompleteContracts \cup {"OpenTimestamp"} -> "announce"
      [] c \in BondedContracts \cup SecurityContracts \cup GovernanceContracts
           -> "announcePartial"
      [] c = "PartialCosignature" -> "pipe"
      [] OTHER -> "none"

\* executeContract creates a hash lock and calls announcePartial
TwoPhase(c) ==
    Protocol(c) = "announcePartial"

\* executeContract calls announce
OnePhase(c) ==
    Protocol(c) = "announce"

\* the accounts whose signature the command's transaction set needs
Signers(c) ==
    CASE c \in CompleteContracts -> {actor}
      [] c = "OpenTimestamp" -> {actor}
      [] c = "RequestAsset" -> {actor, other}
      [] c = "AssetRequest" -> {actor, other}
      [] c = "EscrowAsset" -> {actor, other}
      [] OTHER -> {actor, other}

\* the transaction executeContract signs
WrapKind(c) ==
    CASE c \in CompleteContracts -> "complete"
      [] c = "OpenTimestamp" -> "transfer"
      [] OTHER -> "bonded"

\* commands that read the --lock input
LockOverridable == BondedContracts
LockInputs == {<<>>, <<5, "other.asset">>, <<5>>}

\* the asset a command names as its default lock asset
DefaultLockAsset(c) ==
    IF c = "AssetRequest" THEN "nem.xem" ELSE "symbol.xym"

\* as LockMosaic, with the --lock input never applied
LockMosaicDefaultOnly(c, input) ==
    IF c \in BondedContracts
    THEN [asset |-> DefaultLockAsset(c), amount |-> 10 * 1000000]
    ELSE [asset |-> LOCK_MOSAIC, amount |-> LOCK_AMOUNT]

\* the mosaic given to getHashLockTransaction
LockMosaic(c, input) ==
    IF c \in BondedContracts
    THEN IF input = <<>>
         THEN [asset |-> DefaultLockAsset(c), amount |-> 10 * 1000000]
         ELSE [asset |-> input[2], amount |-> input[1] * 1000000]
    ELSE [asset |-> LOCK_MOSAIC, amount |-> LOCK_AMOUNT]

\* the hash of the transaction the command signs: the bonded aggregate of
\* announcePartial, or the one transaction of announce
SignedHashes(c) ==
    IF TwoPhase(c) THEN {hB} ELSE {hA}

\* as getHashLockTransaction, with the lock made for an aggregate other than
\* the one handed over
getHashLockTransactionOther(mosaic, duration, signedAggregate) ==
    [hash |-> hL, ref |-> hX, mosaic |-> mosaic, duration |-> duration]

\* TransactionFactory.getHashLockTransaction, signed
getHashLockTransaction(mosaic, duration, signedAggregate) ==
    [hash |-> hL, ref |-> signedAggregate.hash, mosaic |-> mosaic,
     duration |-> duration]

\* a call of the command to the broadcaster
BroadcasterCall(endpoint, lock, tx) ==
    [endpoint |-> endpoint, lock |-> lock, tx |-> tx]

\* the partial transactions the node can return for the account
PendingTx == [hash : {hP, hX}, signed : BOOLEAN]
PendingLists ==
    UNION { [1..n -> PendingTx] : n \in 0..MaxPending }

\* as ExecuteContractPipe, without the filter on signedByAccount
ExecuteContractPipeNoFilter == <<"map">>

\* the operators handed to pipe() in PartialCosignature.executeContract:
\* filter(...) and map(project, thisArg); the mergeMap(...) expression is
\* map's second argument
ExecuteContractPipe == <<"filter", "map">>

InPipe(op) ==
    \E i \in DOMAIN ExecuteContractPipe : ExecuteContractPipe[i] = op

\* one OptionsResolver call of execute(): the input it reads, and whether the
\* call stands in a try whose catch calls Contract.error
Param(name, guarded) == [name |-> name, guarded |-> guarded]

\* as Params, with every OptionsResolver call inside a try
ParamsAllGuarded(c) ==
    CASE c \in {"RequestAsset", "AssetRequest"} ->
           <<Param("asset", TRUE), Param("from", TRUE)>>
      [] c \in {"EscrowAsset", "AssetEscrow"} ->
           <<Param("asset1", TRUE), Param("taker", TRUE), Param("asset2", TRUE)>>
      [] OTHER -> <<Param("input", TRUE)>>

\* the OptionsResolver calls execute() makes on every run, in source order
\* (calls made only after a yes to an optional question are left out)
Params(c) ==
    CASE c \in {"RequestAsset", "AssetRequest"} ->
           <<Param("asset", TRUE), Param("from", TRUE)>>
      [] c \in {"EscrowAsset", "AssetEscrow"} ->
           <<Param("asset1", TRUE), Param("taker", TRUE), Param("asset2", TRUE)>>
      [] c = "CreateAsset" ->
           <<Param("name", TRUE), Param("divisibility", TRUE),
             Param("supply", TRUE), Param("flags", TRUE)>>
      [] c = "OpenTimestamp" -> <<Param("data", TRUE)>>
      [] c = "PartialCosignature" -> <<Param("hash", TRUE)>>
      [] c = "ListSecurities" -> <<Param("authority", TRUE)>>
      [] c = "CreateAuthority" -> <<>>
      [] c = "AttachPartitionDocument" ->
           <<Param("holder", TRUE), Param("name", TRUE), Param("filenode", FALSE),
             Param("filename", FALSE), Param("mnemonic", FALSE)>>
      [] c = "ModifySecurityRestriction" ->
           <<Param("field", FALSE), Param("value", FALSE),
             Param("mnemonic", FALSE)>>
      [] c = "TransferSecurity" ->
           <<Param("sender", TRUE), Param("name_sender", TRUE),
             Param("recipient", TRUE), Param("name_recipient", TRUE),
             Param("amount", TRUE), Param("mnemonic", FALSE)>>
      [] c = "GovCreateAgreement" ->
           <<Param("name", TRUE), Param("password", TRUE),
             Param("operators", FALSE), Param("mnemonic", FALSE)>>
      [] c = "CreatePartition" ->
           <<Param("recipient", TRUE), Param("name", TRUE),
             Param("mnemonic", FALSE)>>
      [] c = "ModifySecurityMetadata" ->
           <<Param("mic", FALSE), Param("isin", FALSE),
             Param("classification", FALSE), Param("website", FALSE),
             Param("sector", FALSE), Param("industry", FALSE),
             Param("mnemonic", FALSE)>>
      [] c = "CreateSecurity" ->
           <<Param("name", TRUE), Param("supply", TRUE), Param("operators", TRUE),
             Param("mic", FALSE), Param("isin", FALSE),
             Param("classification", FALSE), Param("website", FALSE),
             Param("sector", FALSE), Param("industry", FALSE),
             Param("mnemonic", FALSE)>>
      [] c = "UnlockSecurityBalance" ->
           <<Param("holder", TRUE), Param("name", TRUE), Param("amount", TRUE),
             Param("locker", TRUE), Param("mnemonic", FALSE)>>

\* commands that ask "Do you want to ... now?" unless --yes is given
ConfirmingContracts == SecurityContracts \cup GovernanceContracts

\* keys the user can press at a readlineSync.keyInYN question
Answers == {"y", "n", "other"}

\* as keyInYN, with every key taken for a yes
keyInYNAlwaysYes(key) ==
    "true"

\* readlineSync.keyInYN: true for y, false for n, '' for another key
keyInYN(key) ==
    CASE key = "y" -> "true"
      [] key = "n" -> "false"
      [] OTHER -> ""

\* as LockOverrideMalformed, accepting every override
LockOverrideNeverMalformed(input) ==
    FALSE

\* inputs['lock'].split(' ') does not have two parts
LockOverrideMalformed(input) ==
    input # <<>> /\ Len(input) # 2

\* where execute() goes once its OptionsResolver calls are done
AfterParams(c) ==
    IF c \in LockOverridable THEN "override"
    ELSE IF c \in ConfirmingContracts THEN "confirm"
    ELSE "execute"

\* the inputs a run of a command will read, and the state of its process
\* before executeContract
CommandInit ==
    /\ contract \in Contracts
    /\ failAt \in 0..Len(Params(contract))
    /\ pcursor = 1
    /\ raised = <<>>
    /\ yes \in (IF contract \in ConfirmingContracts THEN BOOLEAN ELSE {FALSE})
    /\ answer \in (IF contract \in ConfirmingContracts /\ ~yes THEN Answers
                   ELSE {"none"})
    /\ hashInput \in (IF contract = "PartialCosignature" THEN {"", hP, hX}
                      ELSE {""})
    /\ resolutions = 0
    /\ lockInput \in (IF contract \in LockOverridable THEN LockInputs ELSE {<<>>})
    /\ pending \in (IF contract = "PartialCosignature" THEN PendingLists ELSE {<<>>})
    /\ cursor = 1
    /\ signedTx = <<>>
    /\ locks = <<>>
    /\ cosigs = <<>>
    /\ bcalls = <<>>
    /\ flow = "none"
    /\ pc = "command"
    /\ listenerOpen = FALSE
    /\ subs = <<>>
    /\ calls = <<>>
    /\ mainReq = "none"
    /\ cbs = <<>>
    /\ nodeKnown = {}
    /\ nodeFailed = {}
    /\ nodeConfirmed = {}
    /\ nEmitted = 0
    /\ observed = <<>>
    /\ lost = {}
    /\ filtered = {}
    /\ reports = <<>>
    /\ infos = 0
    /\ exit = <<>>

\* where execute() stands once configure() has returned
FirstStep(c) == IF Params(c) = <<>> THEN AfterParams(c) ELSE "inputs"

\* state of a command after configure(), with the inputs the run will read
ContractInit ==
    /\ CommandInit
    /\ cpc = FirstStep(contract)
    /\ factory = <<>>
    /\ creates = <<>>
    /\ builds = <<>>
    /\ PrepareIdle

\* one OptionsResolver call of STEP 1: it returns, or it throws (a failing
\* prompt, a malformed entry) into the catch around it, if there is one
ResolveParam ==
    /\ cpc = "inputs"
    /\ pcursor <= Len(Params(contract))
    /\ resolutions' = resolutions + 1
    /\ IF failAt = pcursor
       THEN /\ raised' = <<Params(contract)[pcursor].name>>
            /\ pcursor' = pcursor
            /\ IF Params(contract)[pcursor].guarded
               THEN /\ SetProcState(ContractError(ProcState))
                    /\ cpc' = "exited"
               ELSE /\ cpc' = "thrown"
                    /\ UNCHANGED <<reports, infos, exit, calls, cbs, subs>>
       ELSE /\ pcursor' = pcursor + 1
            /\ cpc' = IF pcursor = Len(Params(contract))
                      THEN AfterParams(contract) ELSE "inputs"
            /\ UNCHANGED <<raised, reports, infos, exit, calls, cbs, subs>>
    /\ UNCHANGED <<contract, lockInput, pending, cursor, signedTx, locks, cosigs,
                   bcalls, failAt, yes, answer, hashInput>>
    /\ UNCHANGED <<flow, pc, listenerOpen, mainReq, nodeKnown, nodeFailed,
                   nodeConfirmed, nEmitted, observed, lost, filtered>>
    /\ UNCHANGED fvars
    /\ UNCHANGED pvars

\* "lock asset can be overwritten with --lock or -l": the override is split
\* and, when it has not two parts, an ExpectedError is thrown out of execute()
ReadLockOverride ==
    /\ cpc = "override"
    /\ IF LockOverrideMalformed(lockInput)
       THEN /\ raised' = <<"lock">>
            /\ cpc' = "thrown"
       ELSE /\ raised' = raised
            /\ cpc' = "execute"
    /\ UNCHANGED <<contract, lockInput, pending, cursor, signedTx, locks, cosigs,
                   bcalls, failAt, pcursor, yes, answer, hashInput, resolutions>>
    /\ UNCHANGED bvars
    /\ UNCHANGED fvars
    /\ UNCHANGED pvars

\* "whether to force execution or ask for next step": without --yes the user
\* is asked, and the run returns when the answer is no
ConfirmRun ==
    /\ cpc = "confirm"
    /\ IF yes
       THEN /\ resolutions' = resolutions
            /\ cpc' = "execute"
       ELSE /\ resolutions' = resolutions + 1
            /\ cpc' = IF keyInYN(answer) = "false" THEN "declined" ELSE "execute"
    /\ UNCHANGED <<contract, lockInput, pending, cursor, signedTx, locks, cosigs,
                   bcalls, failAt, pcursor, raised, yes, answer, hashInput>>
    /\ UNCHANGED bvars
    /\ UNCHANGED fvars
    /\ UNCHANGED pvars

\* executeContract wraps the transaction set (or takes the one transaction
\* handed over) and signs it with the actor's account
SignAggregate ==
    /\ cpc = "execute"
    /\ OnePhase(contract) \/ TwoPhase(contract)
    /\ \E h \in SignedHashes(contract) :
         signedTx' = << [hash |-> h, kind |-> WrapKind(contract),
                         signers |-> Signers(contract)] >>
    /\ cpc' = IF TwoPhase(contract) THEN "lock" ELSE "broadcast"
    /\ UNCHANGED <<contract, lockInput, pending, cursor, locks, cosigs, bcalls>>
    /\ UNCHANGED ivars
    /\ UNCHANGED bvars
    /\ UNCHANGED fvars
    /\ UNCHANGED pvars

\* executeContract creates the hash lock for the signed aggregate and signs it
CreateHashLock ==
    /\ cpc = "lock"
    /\ locks' = Append(locks, getHashLockTransaction(
                                  LockMosaic(contract, lockInput), LockDuration,
                                  signedTx[1]))
    /\ cpc' = "broadcast"
    /\ UNCHANGED <<contract, lockInput, pending, cursor, signedTx, cosigs, bcalls>>
    /\ UNCHANGED ivars
    /\ UNCHANGED bvars
    /\ UNCHANGED fvars
    /\ UNCHANGED pvars

\* as Broadcast, with the final confirmation asked after the call
BroadcastThenAsk ==
    /\ cpc = "broadcast"
    /\ bcalls' = Append(bcalls,
                   IF TwoPhase(contract)
                   THEN BroadcasterCall("announcePartial", <<locks[Len(locks)]>>,
                                        signedTx[1].hash)
                   ELSE BroadcasterCall("announce", <<>>, signedTx[1].hash))
    /\ flow' = bcalls'[Len(bcalls')].endpoint
    /\ pc' = "idle"
    /\ cpc' = IF contract \in ConfirmingContracts THEN "confirm" ELSE "done"
    /\ UNCHANGED <<contract, lockInput, pending, cursor, signedTx, locks, cosigs>>
    /\ UNCHANGED ivars
    /\ UNCHANGED <<listenerOpen, subs, calls, mainReq, cbs, nodeKnown, nodeFailed,
                   nodeConfirmed, nEmitted, observed, lost, filtered, reports,
                   infos, exit>>
    /\ UNCHANGED fvars
    /\ UNCHANGED pvars

\* executeContract calls the broadcaster: announcePartial(lock, aggregate)
\* in the commands that created a hash lock, announce(transaction) in the
\* others; the operation called is the flow the broadcaster then runs
Broadcast ==
    /\ cpc = "broadcast"
    /\ bcalls' = Append(bcalls,
                   IF TwoPhase(contract)
                   THEN BroadcasterCall("announcePartial", <<locks[Len(locks)]>>,
                                        signedTx[1].hash)
                   ELSE BroadcasterCall("announce", <<>>, signedTx[1].hash))
    /\ flow' = bcalls'[Len(bcalls')].endpoint
    /\ pc' = "idle"
    /\ cpc' = "done"
    /\ UNCHANGED <<contract, lockInput, pending, cursor, signedTx, locks, cosigs>>
    /\ UNCHANGED ivars
    /\ UNCHANGED <<listenerOpen, subs, calls, mainReq, cbs, nodeKnown, nodeFailed,
                   nodeConfirmed, nEmitted, observed, lost, filtered, reports,
                   infos, exit>>
    /\ UNCHANGED fvars
    /\ UNCHANGED pvars

\* executeContract of a command that sends nothing
ReturnTrue ==
    /\ cpc = "execute"
    /\ contract \in SilentContracts
    /\ cpc' = "done"
    /\ UNCHANGED <<contract, lockInput, pending, cursor, signedTx, locks, cosigs,
                   bcalls>>
    /\ UNCHANGED ivars
    /\ UNCHANGED bvars
    /\ UNCHANGED fvars
    /\ UNCHANGED pvars

\* PartialCosignature.execute: the node returned no partial transaction
NoPending ==
    /\ cpc = "execute"
    /\ contract = "PartialCosignature"
    /\ pending = <<>>
    /\ cpc' = "done"
    /\ UNCHANGED <<contract, lockInput, pending, cursor, signedTx, locks, cosigs,
                   bcalls>>
    /\ UNCHANGED ivars
    /\ UNCHANGED bvars
    /\ UNCHANGED fvars
    /\ UNCHANGED pvars

\* PartialCosignature.executeContract: the next pending transaction goes
\* through the operators of the pipe
CosignNext ==
    /\ cpc \in {"execute", "pipe"}
    /\ contract = "PartialCosignature"
    /\ cursor <= Len(pending)
    /\ LET tx == pending[cursor]
           passes == InPipe("filter") => ~tx.signed
       IN  /\ cosigs' = IF passes /\ InPipe("map")
                        THEN Append(cosigs, [parent |-> tx.hash])
                        ELSE cosigs
           /\ bcalls' = IF passes /\ InPipe("map") /\ InPipe("mergeMap")
                        THEN Append(bcalls, BroadcasterCall("announceCosignature",
                                                            <<>>, tx.hash))
                        ELSE bcalls
    /\ cursor' = cursor + 1
    /\ cpc' = "pipe"
    /\ UNCHANGED <<contract, lockInput, pending, signedTx, locks>>
    /\ UNCHANGED ivars
    /\ UNCHANGED bvars
    /\ UNCHANGED fvars
    /\ UNCHANGED pvars

\* the source observable completes and toPromise() resolves
PipeComplete ==
    /\ cpc = "pipe"
    /\ cursor > Len(pending)
    /\ cpc' = "done"
    /\ UNCHANGED <<contract, lockInput, pending, cursor, signedTx, locks, cosigs,
                   bcalls>>
    /\ UNCHANGED ivars
    /\ UNCHANGED bvars
    /\ UNCHANGED fvars
    /\ UNCHANGED pvars

ContractNext ==
    \/ ResolveParam
    \/ ReadLockOverride
    \/ ConfirmRun
    \/ SignAggregate
    \/ CreateHashLock
    \/ Broadcast
    \/ ReturnTrue
    \/ NoPending
    \/ CosignNext
    \/ PipeComplete

ContractSpec == ContractInit /\ [][ContractNext]_vars

\* the steps of a broadcaster operation and of the node
BroadcasterNext ==
    \/ Start
    \/ OpenOk
    \/ OpenFail
    \/ NodeAccept
    \/ NodeReject
    \/ BodyResume
    \/ \E i \in DOMAIN cbs : CallbackAccept(i)
    \/ \E i \in DOMAIN cbs : CallbackReject(i)
    \/ \E i \in DOMAIN cbs : CallbackResume(i)
    \/ \E e \in Events : NodeEmit(e)

\* a whole run of a command: execute() up to its call of the broadcaster,
\* then the operation it called
RunNext ==
    \/ ContractNext
    \/ (flow \in Flows /\ BroadcasterNext)

RunSpec == ContractInit /\ [][RunNext]_vars

\* ------------------------------------------------------ transaction factory
\* number of TransactionFactory.create calls, and of transactions built
MaxCreates == 2
MaxBuilds == 2

\* ContractConstants.DEFAULT_TRANSACTION_FEE, and the factory's default
\* epochAdjustment
DEFAULT_TRANSACTION_FEE == 30000
EpochAdjustment == 1615853185

EndpointUrls == {"url1", "url2"}
NetworkTypes == {"TEST_NET", "MAIN_NET"}

\* readings of the clock, and values MosaicNonce.createRandom() can draw
Clock == {1, 2}
Nonces == {"n1", "n2"}

\* new TransactionFactory(endpointUrl, networkType)
NewFactory(url, net) ==
    [endpointUrl |-> url, networkType |-> net, epochAdjustment |-> EpochAdjustment]

\* Deadline.create(epochAdjustment), read at clock time now
Deadline(f, now) == [now |-> now, epochAdjustment |-> f.epochAdjustment]

\* TransactionFactory.getTransferTransaction
getTransferTransaction(f, params, now) ==
    [type |-> "transfer",
     deadline |-> Deadline(f, now),
     recipient |-> params.recipient,
     mosaics |-> << [id |-> params.mosaicId, amount |-> params.amount] >>,
     message |-> params.message,
     networkType |-> f.networkType,
     maxFee |-> DEFAULT_TRANSACTION_FEE]

\* TransactionFactory.getMosaicDefinitionTransaction, with the nonce that
\* MosaicNonce.createRandom() drew
getMosaicDefinitionTransaction(f, params, now, nonce) ==
    [type |-> "mosaicDefinition",
     deadline |-> Deadline(f, now),
     nonce |-> nonce,
     mosaicId |-> <<nonce, params.publicAccount>>,
     flags |-> <<params.supplyMutable, params.transferable, params.restrictable>>,
     divisibility |-> params.divisibility,
     networkType |-> f.networkType]

TransferParams ==
    [recipient : {"addr1"}, mosaicId : {"symbol.xym"}, amount : {0, 1},
     message : {"nem2-smart-contracts transfer"}]

MosaicDefinitionParams ==
    [publicAccount : {"account"}, divisibility : {0, 6}, supplyMutable : {TRUE},
     transferable : {TRUE}, restrictable : {FALSE}]

\* a build as it is remembered: what was asked, in which context, and the
\* unsigned transaction that came out
Build(kind, params, f, now, tx) ==
    [kind |-> kind, params |-> params, context |-> f, now |-> now, tx |-> tx]

\* the state of the broadcaster and of the command while only the factory acts
BroadcasterIdle ==
    /\ flow = "none"
    /\ pc = "command"
    /\ listenerOpen = FALSE
    /\ subs = <<>>
    /\ calls = <<>>
    /\ mainReq = "none"
    /\ cbs = <<>>
    /\ nodeKnown = {}
    /\ nodeFailed = {}
    /\ nodeConfirmed = {}
    /\ nEmitted = 0
    /\ observed = <<>>
    /\ lost = {}
    /\ filtered = {}
    /\ reports = <<>>
    /\ infos = 0
    /\ exit = <<>>

ContractIdle ==
    /\ contract = "none"
    /\ cpc = "done"
    /\ lockInput = <<>>
    /\ pending = <<>>
    /\ cursor = 1
    /\ signedTx = <<>>
    /\ locks = <<>>
    /\ cosigs = <<>>
    /\ bcalls = <<>>
    /\ failAt = 0
    /\ pcursor = 1
    /\ raised = <<>>
    /\ yes = FALSE
    /\ answer = "none"
    /\ hashInput = ""
    /\ resolutions = 0

\* the process before the first TransactionFactory.create
FactoryInit ==
    /\ factory = <<>>
    /\ creates = <<>>
    /\ builds = <<>>
    /\ PrepareIdle
    /\ BroadcasterIdle
    /\ ContractIdle

\* TransactionFactory.create(endpointUrl, networkType)
Create(url, net) ==
    /\ Len(creates) < MaxCreates
    /\ factory' = IF factory = <<>> THEN <<NewFactory(url, net)>> ELSE factory
    /\ creates' = Append(creates, [endpointUrl |-> url, networkType |-> net,
                                   returned |-> factory'[1]])
    /\ UNCHANGED <<builds, bvars, cvars>>
    /\ UNCHANGED pvars

\* factory.getTransferTransaction(...) at clock time now
BuildTransfer(params, now) ==
    /\ factory # <<>>
    /\ Len(builds) < MaxBuilds
    /\ builds' = Append(builds,
                   Build("transfer", params, factory[1], now,
                         getTransferTransaction(factory[1], params, now)))
    /\ UNCHANGED <<factory, creates, bvars, cvars>>
    /\ UNCHANGED pvars

\* factory.getMosaicDefinitionTransaction(...) at clock time now
BuildMosaicDefinition(params, now) ==
    /\ factory # <<>>
    /\ Len(builds) < MaxBuilds
    /\ \E nonce \in Nonces :
         builds' = Append(builds,
                     Build("mosaicDefinition", params, factory[1], now,
                           getMosaicDefinitionTransaction(factory[1], params, now,
                                                          nonce)))
    /\ UNCHANGED <<factory, creates, bvars, cvars>>
    /\ UNCHANGED pvars

FactoryNext ==
    \/ \E url \in EndpointUrls, net \in NetworkTypes : Create(url, net)
    \/ \E params \in TransferParams, now \in Clock : BuildTransfer(params, now)
    \/ \E params \in MosaicDefinitionParams, now \in Clock :
           BuildMosaicDefinition(params, now)

FactorySpec == FactoryInit /\ [][FactoryNext]_vars

\* ---------------------------------------------------------------- configure
\* the node URLs a user supplies with --apiUrl or at the prompt
CustomUrls == {"http://localhost:3000"}

\* as ChosenNodeUrl, with the entry taken even when it is empty
ChosenNodeUrlAlwaysOverwritten(current, url) == url

\* "only overwrite if value provided"
ChosenNodeUrl(current, url) == IF url # "" THEN url ELSE current

\* new TransactionBroadcaster(this, this.explorerUrl, this.endpointUrl, debug)
NewBroadcaster(url) == [endpointUrl |-> url]

\* a process that starts execute(): nothing is configured yet
ConfigureInit ==
    /\ CommandInit
    /\ cpc = "configure"
    /\ ppc = "customNode"
    /\ useCustomNode \in Answers
    /\ apiUrl \in CustomUrls \cup {""}
    /\ nodeUrl = DEFAULT_NODE_URL
    /\ broadcaster = <<>>
    /\ connects = 0
    /\ factory = <<>>
    /\ creates = <<>>
    /\ builds = <<>>
    /\ entered = undefined
    /\ inputs = NoInputs
    /\ tokenCalls = <<>>
    /\ namespaceName = <<>>
    /\ existing = {}
    /\ nsCalls = <<>>
    /\ registerTxes = <<>>

\* CONFIG 1: "Do you want to connect to a custom node?"
AskCustomNode ==
    /\ ppc = "customNode"
    /\ resolutions' = resolutions + 1
    /\ ppc' = IF keyInYN(useCustomNode) = "true" THEN "apiUrl" ELSE "connect"
    /\ UNCHANGED <<contract, cpc, lockInput, pending, cursor, signedTx, locks,
                   cosigs, bcalls, failAt, pcursor, raised, yes, answer,
                   hashInput>>
    /\ UNCHANGED <<gvars, avars, nvars>>
    /\ UNCHANGED <<bvars, fvars>>

\* the custom node branch reads 'apiUrl' and overwrites endpointUrl when a
\* value was provided; an OptionsResolver that throws ends in the catch of
\* the branch
ResolveApiUrl ==
    /\ ppc = "apiUrl"
    /\ resolutions' = resolutions + 1
    /\ \/ /\ nodeUrl' = ChosenNodeUrl(nodeUrl, apiUrl)
          /\ ppc' = "connect"
          /\ UNCHANGED <<cpc, raised, reports, infos, exit, calls, cbs, subs>>
       \/ /\ raised' = <<"apiUrl">>
          /\ SetProcState(ContractError(ProcState))
          /\ ppc' = "exited"
          /\ cpc' = "exited"
          /\ UNCHANGED nodeUrl
    /\ UNCHANGED <<contract, lockInput, pending, cursor, signedTx, locks, cosigs,
                   bcalls, failAt, pcursor, yes, answer, hashInput>>
    /\ UNCHANGED <<useCustomNode, apiUrl, broadcaster, connects>>
    /\ UNCHANGED <<avars, nvars, fvars>>
    /\ UNCHANGED <<flow, pc, listenerOpen, mainReq, nodeKnown, nodeFailed,
                   nodeConfirmed, nEmitted, observed, lost, filtered>>

\* connect(inputs) is called: the first block of the node is requested
ConnectCall ==
    /\ ppc = "connect"
    /\ connects' = connects + 1
    /\ ppc' = "connecting"
    /\ UNCHANGED <<useCustomNode, apiUrl, nodeUrl, broadcaster>>
    /\ UNCHANGED <<avars, nvars>>
    /\ UNCHANGED <<bvars, cvars, fvars>>

\* the node returns its first block: network type and generation hash are
\* taken from it, the factory and the broadcaster are created
ConnectResolves(net) ==
    /\ ppc = "connecting"
    /\ factory' = IF factory = <<>> THEN <<NewFactory(nodeUrl, net)>> ELSE factory
    /\ creates' = Append(creates, [endpointUrl |-> nodeUrl, networkType |-> net,
                                   returned |-> factory'[1]])
    /\ broadcaster' = <<NewBroadcaster(nodeUrl)>>
    /\ ppc' = "account"
    /\ UNCHANGED <<useCustomNode, apiUrl, nodeUrl, connects, builds>>
    /\ UNCHANGED <<avars, nvars>>
    /\ UNCHANGED <<bvars, cvars>>

\* the node cannot be reached: the catch of the custom node branch, or the
\* catch around configure() in execute(), calls Contract.error
ConnectRejects ==
    /\ ppc = "connecting"
    /\ SetProcState(ContractError(ProcState))
    /\ ppc' = "connectFailed"
    /\ cpc' = "exited"
    /\ UNCHANGED <<contract, lockInput, pending, cursor, signedTx, locks, cosigs,
                   bcalls, ivars>>
    /\ UNCHANGED <<gvars, avars, nvars, fvars>>
    /\ UNCHANGED <<flow, pc, listenerOpen, mainReq, nodeKnown, nodeFailed,
                   nodeConfirmed, nEmitted, observed, lost, filtered>>

\* CONFIG 2: the account of the run is created from the answers and inputs;
\* an error (a malformed private key or passphrase) leaves configure() and
\* is caught around it in execute()
ConfigureAccount ==
    /\ ppc = "account"
    /\ \/ /\ ppc' = "configured"
          /\ cpc' = FirstStep(contract)
          /\ UNCHANGED <<raised, reports, infos, exit, calls, cbs, subs>>
       \/ /\ raised' = <<"account">>
          /\ SetProcState(ContractError(ProcState))
          /\ ppc' = "exited"
          /\ cpc' = "exited"
    /\ UNCHANGED <<contract, lockInput, pending, cursor, signedTx, locks, cosigs,
                   bcalls, failAt, pcursor, yes, answer, hashInput, resolutions>>
    /\ UNCHANGED <<gvars, avars, nvars, fvars>>
    /\ UNCHANGED <<flow, pc, listenerOpen, mainReq, nodeKnown, nodeFailed,
                   nodeConfirmed, nEmitted, observed, lost, filtered>>

ConfigureNext ==
    \/ AskCustomNode
    \/ ResolveApiUrl
    \/ ConnectCall
    \/ \E net \in NetworkTypes : ConnectResolves(net)
    \/ ConnectRejects
    \/ ConfigureAccount

\* a run of a command from the start of execute() to its call of the
\* broadcaster
ConfigureSpec == ConfigureInit /\ [][ConfigureNext \/ ContractNext]_vars

\* ---------------------------------------- inputs and prepared transactions
\* number of levels of the longest namespace name the user enters
MaxLevels == 4

\* "maximum 3 levels allowed"
MaxNamespaceLevels == 3

\* ContractConstants.BLOCKS_IN_ONE_YEAR
BLOCKS_IN_ONE_YEAR == (365 * 24 * 60 * 60) \div 15

\* the values OptionsResolver hands over for a numeric input: the number of
\* the command line, or the text typed at the prompt
EnteredValues == {JSNumber(n) : n \in Numbers} \cup {JSString(t) : t \in Texts}

RECURSIVE Join(_)
\* parts.join('.')
Join(parts) ==
    IF parts = <<>> THEN <<>>
    ELSE IF Len(parts) = 1 THEN parts[1]
    ELSE parts[1] \o <<".">> \o Join(Tail(parts))

RECURSIVE Split(_)
\* name.split('.')
Split(str) ==
    IF \A i \in DOMAIN str : str[i] # "." THEN <<str>>
    ELSE LET dot == CHOOSE i \in DOMAIN str :
                      str[i] = "." /\ \A j \in 1..(i - 1) : str[j] # "."
         IN  <<SubSeq(str, 1, dot - 1)>> \o Split(SubSeq(str, dot + 1, Len(str)))

\* the names the user enters: up to MaxLevels labels joined by dots
Names ==
    {Join(ls) : ls \in UNION {[1..k -> {<<"a">>, <<"b">>}] : k \in 1..MaxLevels}}

\* fullName of iteration i (from 1) of the loop
FullName(parts, i) == IF i = 1 THEN parts[1] ELSE Join(SubSeq(parts, 1, i))

\* the namespace levels of a name: each dot-separated prefix
Prefixes(name) == {FullName(Split(name), i) : i \in DOMAIN Split(name)}

\* TransactionFactory.getNamespaceRegistrationTransaction
getNamespaceRegistrationTransaction(f, name, duration, now) ==
    LET isSub == \E i \in DOMAIN name : name[i] = "."
        parts == Split(name)
        parent == Join(SubSeq(parts, 1, Len(parts) - 1))
        current == parts[Len(parts)]
    IN  IF isSub
        THEN [type |-> "subNamespace", name |-> current, parent |-> parent,
              duration |-> 0, deadline |-> Deadline(f, now),
              networkType |-> f.networkType, maxFee |-> DEFAULT_TRANSACTION_FEE]
        ELSE [type |-> "rootNamespace", name |-> name, parent |-> <<>>,
              duration |-> duration, deadline |-> Deadline(f, now),
              networkType |-> f.networkType, maxFee |-> DEFAULT_TRANSACTION_FEE]

\* the full name a registration registers
Registers(tx) ==
    IF tx.type = "subNamespace" THEN tx.parent \o <<".">> \o tx.name ELSE tx.name

\* inputs['amount'] = parseInt(OptionsResolver(...)); "a transfer should
\* contain always a minimum of 1 share": if (inputs['supply'] <= 0)
\* inputs['supply'] = 1
ReadAmountInput(in, v) ==
    LET read == [in EXCEPT !.amount = parseInt(v)]
    IN  IF LessOrEqual(read.supply, 0) THEN [read EXCEPT !.supply = JSNumber(1)]
        ELSE read

\* as ForceValidate, without the upper limit
ForceValidateNoUpperLimit(v) == IF LessThan(v, 0) THEN JSNumber(0) ELSE v

\* "force-validate value": divisibility < 0 ? 0 : divisibility > 6 ? 6 :
\* divisibility
ForceValidate(v) ==
    IF LessThan(v, 0) THEN JSNumber(0)
    ELSE IF GreaterThan(v, 6) THEN JSNumber(6)
    ELSE v

AmountContracts == {"TransferSecurity", "UnlockSecurityBalance"}

PrepareContracts == AmountContracts \cup {"CreateAsset"}

\* the command and the broadcaster while execute() is between configure()
\* and executeContract
PrepareContext ==
    /\ cpc = "inputs"
    /\ lockInput = <<>>
    /\ pending = <<>>
    /\ cursor = 1
    /\ signedTx = <<>>
    /\ locks = <<>>
    /\ cosigs = <<>>
    /\ bcalls = <<>>
    /\ failAt = 0
    /\ pcursor = 1
    /\ raised = <<>>
    /\ yes = FALSE
    /\ answer = "none"
    /\ hashInput = ""
    /\ resolutions = 0
    /\ BroadcasterIdle
    /\ useCustomNode = "n"
    /\ apiUrl = ""
    /\ nodeUrl = DEFAULT_NODE_URL
    /\ connects = 1
    /\ broadcaster = << [endpointUrl |-> nodeUrl] >>
    /\ factory = << NewFactory(nodeUrl, "TEST_NET") >>
    /\ creates = <<>>
    /\ builds = <<>>
    /\ inputs = NoInputs
    /\ tokenCalls = <<>>
    /\ nsCalls = <<>>
    /\ registerTxes = <<>>

\* a command after configure(), with the numeric input the user will give,
\* the asset name, and a network on which the first levels of the name exist
PrepareInit ==
    /\ contract \in PrepareContracts
    /\ PrepareContext
    /\ ppc = (IF contract = "CreateAsset" THEN "divisibility" ELSE "amount")
    /\ entered \in EnteredValues
    /\ namespaceName \in (IF contract = "CreateAsset" THEN Names ELSE {<<>>})
    /\ existing \in {{FullName(Split(namespaceName), i) : i \in 1..k} :
                       k \in 0..(IF contract = "CreateAsset"
                                 THEN Len(Split(namespaceName)) ELSE 0)}

\* CreateAsset after STEP 1, with the asset name and a network on which any
\* of the levels of the name exist
NamespaceInit ==
    /\ contract = "CreateAsset"
    /\ PrepareContext
    /\ ppc = "namespaces"
    /\ entered = undefined
    /\ namespaceName \in Names
    /\ existing \in SUBSET Prefixes(namespaceName)

\* STEP 1 of TransferSecurity and UnlockSecurityBalance: the amount is read
ReadAmount ==
    /\ ppc = "amount"
    /\ contract \in AmountContracts
    /\ inputs' = ReadAmountInput(inputs, entered)
    /\ ppc' = "token"
    /\ UNCHANGED <<entered, tokenCalls, gvars, nvars>>
    /\ UNCHANGED <<bvars, cvars, fvars>>

\* STEP 3: token.transfer(..., inputs['amount'], params), and
\* token.execute(..., 'UnlockBalance', params, [..., amount])
TokenCommand ==
    /\ ppc = "token"
    /\ tokenCalls' = Append(tokenCalls,
                       [command |-> IF contract = "TransferSecurity"
                                    THEN "Transfer" ELSE "UnlockBalance",
                        amount |-> inputs.amount])
    /\ ppc' = "prepared"
    /\ UNCHANGED <<entered, inputs, gvars, nvars>>
    /\ UNCHANGED <<bvars, cvars, fvars>>

\* STEP 1 of CreateAsset: the divisibility is read and force-validated
ReadDivisibility ==
    /\ ppc = "divisibility"
    /\ contract = "CreateAsset"
    /\ inputs' = [inputs EXCEPT !.divisibility = ForceValidate(entered)]
    /\ ppc' = "namespaces"
    /\ UNCHANGED <<entered, tokenCalls, gvars, nvars>>
    /\ UNCHANGED <<bvars, cvars, fvars>>

\* as GetNamespaceRegistrations, without the limit on the number of levels
GetNamespaceRegistrationsNoLimit ==
    /\ ppc = "namespaces"
    /\ ppc' = "levels"
    /\ UNCHANGED <<gvars, avars, nvars>>
    /\ UNCHANGED <<bvars, cvars, fvars>>

\* factory.getNamespaceRegistrations(account, name, duration) is called: a
\* name of more than 3 levels throws, and the error leaves execute()
GetNamespaceRegistrations ==
    /\ ppc = "namespaces"
    /\ ppc' = IF Len(Split(namespaceName)) > MaxNamespaceLevels
              THEN "thrown" ELSE "levels"
    /\ UNCHANGED <<gvars, avars, nvars>>
    /\ UNCHANGED <<bvars, cvars, fvars>>

\* as NamespaceLevel, with a registration kept for every level
NamespaceLevelNoPop(now) ==
    /\ ppc = "levels"
    /\ Len(nsCalls) < Len(Split(namespaceName))
    /\ LET fullName == FullName(Split(namespaceName), Len(nsCalls) + 1)
           registerTx == getNamespaceRegistrationTransaction(
                             factory[1], fullName, BLOCKS_IN_ONE_YEAR, now)
       IN  /\ nsCalls' = Append(nsCalls, fullName)
           /\ registerTxes' = Append(registerTxes, registerTx)
    /\ UNCHANGED <<ppc, namespaceName, existing, gvars, avars>>
    /\ UNCHANGED <<bvars, cvars, fvars>>

\* one iteration of the loop: the registration of the level is pushed, the
\* node is asked for the namespace, and the registration is popped when the
\* node returns it
NamespaceLevel(now) ==
    /\ ppc = "levels"
    /\ Len(nsCalls) < Len(Split(namespaceName))
    /\ LET fullName == FullName(Split(namespaceName), Len(nsCalls) + 1)
           registerTx == getNamespaceRegistrationTransaction(
                             factory[1], fullName, BLOCKS_IN_ONE_YEAR, now)
       IN  /\ nsCalls' = Append(nsCalls, fullName)
           /\ registerTxes' = IF fullName \in existing THEN registerTxes
                              ELSE Append(registerTxes, registerTx)
    /\ UNCHANGED <<ppc, namespaceName, existing, gvars, avars>>
    /\ UNCHANGED <<bvars, cvars, fvars>>

\* the loop is over: resolve(registerTxes)
NamespacesResolved ==
    /\ ppc = "levels"
    /\ Len(nsCalls) = Len(Split(namespaceName))
    /\ ppc' = "mosaic"
    /\ UNCHANGED <<gvars, avars, nvars>>
    /\ UNCHANGED <<bvars, cvars, fvars>>

\* Contract Action #2: factory.getMosaicDefinitionTransaction(account,
\* inputs['divisibility'], ...)
CreateAssetMosaicDefinition(now) ==
    /\ ppc = "mosaic"
    /\ LET params == [publicAccount |-> "account",
                      divisibility |-> inputs.divisibility,
                      supplyMutable |-> TRUE, transferable |-> TRUE,
                      restrictable |-> FALSE]
       IN  \E nonce \in Nonces :
             builds' = Append(builds,
                         Build("mosaicDefinition", params, factory[1], now,
                               getMosaicDefinitionTransaction(factory[1], params,
                                                              now, nonce)))
    /\ ppc' = "prepared"
    /\ UNCHANGED <<factory, creates, gvars, avars, nvars>>
    /\ UNCHANGED <<bvars, cvars>>

\* STEP 2 of CreateAsset
NamespaceNext ==
    \/ GetNamespaceRegistrations
    \/ \E now \in Clock : NamespaceLevel(now)
    \/ NamespacesResolved
    \/ \E now \in Clock : CreateAssetMosaicDefinition(now)

NamespaceSpec == NamespaceInit /\ [][NamespaceNext]_vars

PrepareNext ==
    \/ ReadAmount
    \/ TokenCommand
    \/ ReadDivisibility
    \/ NamespaceNext

PrepareSpec == PrepareInit /\ [][PrepareNext]_vars

\* ------------------------------------------------------- claim vocabulary
SeqRange(q) == {q[i] : i \in DOMAIN q}

\* positions in calls of the submissions of hash h
SubmitsOf(h) == {i \in DOMAIN calls : calls[i].op = "submit" /\ calls[i].hash = h}

\* positions in calls where a channel of the account's address is subscribed
SubscriptionsAt == {i \in DOMAIN calls : calls[i].op = "subscribe"}

\* positions in observed of event e
ObservedAt(e) == {i \in DOMAIN observed : observed[i] = e}

ReportsOf(kind) == {i \in DOMAIN reports : reports[i].kind = kind}

SuccessKinds == {"Confirmed", "CosignatureAdded"}

\* Idle 0, Subscribed 1, Announced 2, Confirmed or Failed 3
Phase ==
    IF reports # <<>> \/ exit # <<>> THEN 3
    ELSE IF \E i \in DOMAIN calls : calls[i].op = "submit" THEN 2
    ELSE IF listenerOpen THEN 1
    ELSE 0

\* ------------------------------------------------------------------ claims

\* C1: in every flow the event subscription for the account's address is
\* established strictly before the first submit call: every submit call in
\* the call order is preceded by a subscription of the address.
C1_SubscribedBeforeSubmit ==
    \A i \in DOMAIN calls :
        calls[i].op = "submit" => \E j \in SubscriptionsAt : j < i

\* C2: in announce, no status or confirmation event for the tracked hash that
\* the node emits after the submit call is lost for want of an active handler.
C2_NoTrackedEventLost ==
    flow = "announce" =>
        \A e \in lost : ~(e.hash = hA /\ e.chan \in {"status", "confirmed"})

\* C3: announcePartial submits the bonded aggregate only once it has observed
\* the confirmation event of the hash lock.
C3_LockConfirmedBeforeBonded ==
    flow = "announcePartial" =>
        (SubmitsOf(hB) # {} => ObservedAt(Event("confirmed", hL)) # {})

\* C3 witness: the bonded aggregate was submitted after the lock's confirmation.
C3_Witness ==
    /\ flow = "announcePartial"
    /\ SubmitsOf(hB) # {}
    /\ ObservedAt(Event("confirmed", hL)) # {}

\* the hash lock's submission was rejected and the body has handled it
LockRejected == mainReq = "reject" /\ pc = "waiting"

\* an error event for the hash lock reached the flow
LockErrorArrived == ObservedAt(Event("status", hL)) # {}

\* C4: in announcePartial, when the hash lock fails (its submission is
\* rejected, or the node emits an error event for it) the bonded aggregate is
\* submitted 0 times, and once the rejection or the error event has reached
\* the flow the run has ended Failed with exit code 1.
C4_LockFailureNeverSubmitsBonded ==
    flow = "announcePartial" =>
        /\ (mainReq = "reject" \/ hL \in nodeFailed) => SubmitsOf(hB) = {}
        /\ (LockRejected \/ LockErrorArrived) =>
              /\ exit = <<1>>
              /\ ReportsOf("Failed") # {}
              /\ ReportsOf("Confirmed") = {}

\* C4 witness: an error event for the hash lock reached the flow.
C4_Witness ==
    /\ flow = "announcePartial"
    /\ LockErrorArrived
    /\ SubmitsOf(hB) = {}
    /\ exit = <<1>>

\* C5: a status event whose hash differs from the tracked transaction's hash
\* is ignored: it ends no flow and produces no Failed outcome.
C5_OtherStatusIgnored ==
    /\ Event("status", hX) \notin SeqRange(observed)
    /\ Report("Failed", hX) \notin SeqRange(reports)

\* C6: a confirmation event whose hash differs from the tracked hash changes
\* nothing: no termination, no outcome, no submission, no new handler.
C6_OtherConfirmationIgnored ==
    [][NodeEmit(Event("confirmed", hX)) =>
          UNCHANGED <<exit, reports, infos, calls, cbs, subs, observed>>]_vars

\* C6 witness: a confirmation for another hash arrived on the subscribed
\* confirmation channel of a waiting flow.
C6_Witness ==
    /\ Event("confirmed", hX) \in filtered
    /\ exit = <<>>

\* the bonded aggregate's submission was accepted by the node
BondedAnnounced == \E i \in DOMAIN cbs : cbs[i] \in {"ack", "done"}

\* C7: in announcePartial, once the bonded aggregate is announced, only a
\* confirmed event or an error event for the bonded aggregate's hash ends the
\* flow; partial-added and cosignature-added events leave it waiting.
C7_OnlyTrackedEventsTerminate ==
    [][(flow = "announcePartial" /\ BondedAnnounced /\ exit = <<>> /\ exit' # <<>>)
          => \/ NodeEmit(Event("confirmed", hB))
             \/ NodeEmit(Event("status", hB))]_vars

\* C8: announcePartial reports Confirmed, and exits 0, only after it observed
\* the hash lock's confirmation and later the bonded aggregate's; at most one
\* Confirmed report is produced, for the bonded aggregate.
C8_ConfirmedAfterLockThenBonded ==
    flow = "announcePartial" =>
        /\ Cardinality(ReportsOf("Confirmed")) <= 1
        /\ (ReportsOf("Confirmed") # {} \/ exit = <<0>>) =>
              /\ exit = <<0>>
              /\ reports = << Report("Confirmed", hB) >>
              /\ \E i \in ObservedAt(Event("confirmed", hL)) :
                    \E j \in ObservedAt(Event("confirmed", hB)) : i < j

\* C8 witness: the run confirmed after at least one informational event.
C8_Witness ==
    /\ flow = "announcePartial"
    /\ exit = <<0>>
    /\ infos > 0

\* C9: a run whose outcome is Failed has exited non-zero and a run whose
\* outcome is a success has exited 0; exit 0 only follows a success and a
\* non-zero exit only follows a failure.
C9_ExitCodeMatchesOutcome ==
    /\ \A i \in DOMAIN reports :
          /\ reports[i].kind = "Failed" => (exit # <<>> /\ exit[1] # 0)
          /\ reports[i].kind \in SuccessKinds => exit = <<0>>
    /\ exit = <<0>> =>
          (reports # <<>> /\ reports[Len(reports)].kind \in SuccessKinds)
    /\ (exit # <<>> /\ exit[1] # 0) =>
          (reports # <<>> /\ reports[Len(reports)].kind = "Failed")

\* C9 witness: a run failed by an observed status event.
C9_Witness ==
    /\ exit = <<1>>
    /\ \E i \in DOMAIN reports : reports[i].kind = "Failed" /\ reports[i].hash # "none"

\* C10: a flow only moves forward through Idle, Subscribed, Announced and a
\* terminal outcome; it produces at most one terminal outcome and after it
\* no submit, subscription or outcome occurs.
C10_ForwardOnly ==
    [][/\ Phase' >= Phase
       /\ Len(reports') <= 1
       /\ reports # <<>> => UNCHANGED <<reports, exit, calls, subs, cbs, infos>>]_vars

\* C10 witness: a run that ended by a rejected submission.
C10_Witness ==
    /\ mainReq = "reject"
    /\ reports = << Report("Failed", "none") >>
    /\ exit = <<1>>

\* a step in which an awaited submission's rejection is handled
RejectionHandled ==
    \/ BodyResume /\ mainReq = "reject"
    \/ \E i \in DOMAIN cbs : CallbackResume(i) /\ cbs[i] = "reject"

\* C11: when a submission fails, the step that handles it ends the flow with
\* a Failed report and exit code 1, makes no transport call and registers no
\* handler; nothing is submitted or registered afterwards.
C11_RejectionIsTerminal ==
    [][/\ RejectionHandled =>
            /\ reports' = Append(reports, Report("Failed", "none"))
            /\ exit' = <<1>>
            /\ calls' = calls
            /\ subs' = subs
       /\ exit # <<>> => UNCHANGED <<calls, subs, reports, exit>>]_vars

\* C11 witness: the bonded aggregate's submission was rejected and handled.
C11_Witness ==
    /\ flow = "announcePartial"
    /\ \E i \in DOMAIN cbs : cbs[i] = "done"
    /\ hB \notin nodeKnown
    /\ reports = << Report("Failed", "none") >>
    /\ exit = <<1>>

\* C12: every signed transaction is submitted to the transport at most once,
\* whatever events the node delivers and however often.
C12_SubmittedAtMostOnce ==
    \A h \in {hA, hL, hB, hP} : Cardinality(SubmitsOf(h)) <= 1

\* the run was aborted: the node could not be reached (connect threw) or the
\* listener could not be opened
ConnectFailed == pc = "configure" /\ exit # <<>>

OpenFailed == pc = "aborted"

\* C13: when the node cannot be reached or the listener cannot be opened the
\* run is aborted and no transaction was submitted at any point of the run.
C13_AbortBeforeAnySubmit ==
    (ConnectFailed \/ OpenFailed) =>
        /\ \A i \in DOMAIN calls : calls[i].op # "submit"
        /\ nodeKnown = {}
        /\ ~ENABLED Next

\* C13 witness: the listener could not be opened.
C13_Witness == OpenFailed /\ calls = << Call("open", "listener", "none") >>

\* C14: announceCosignature ends with success only on a cosignature-added
\* event of the aggregate its cosignature was made for; a cosignature-added
\* event with another parent hash does not end the flow.
C14_OnlyOwnCosignatureTerminates ==
    flow = "announceCosignature" =>
        \A i \in DOMAIN reports :
            reports[i].kind = "CosignatureAdded" => reports[i].hash = hP

\* C15: announceCosignature submits only the cosignature: every submit call
\* of a cosigner run goes to the cosignature endpoint, for the parent hash.
C15_CosignerSubmitsOnlyCosignature ==
    flow = "announceCosignature" =>
        \A i \in DOMAIN calls :
            calls[i].op = "submit" =>
                /\ calls[i].arg = "announceAggregateBondedCosignature"
                /\ calls[i].hash = hP

\* C15 witness: the cosignature was submitted and the flow waits.
C15_Witness ==
    /\ flow = "announceCosignature"
    /\ SubmitsOf(hP) # {}
    /\ mainReq = "ack"
    /\ pc = "waiting"

C17_EventuallyTerminal ==
    /\ (flow = "announce" /\ mainReq = "ack" /\ hA \in nodeConfirmed)
          ~> (exit = <<0>> /\ ReportsOf("Confirmed") # {})
    /\ (flow = "announce" /\ mainReq = "ack" /\ hA \in nodeFailed)
          ~> (exit = <<1>> /\ ReportsOf("Failed") # {})
    /\ (flow = "announcePartial" /\ hL \in nodeConfirmed /\ hB \in nodeConfirmed)
          ~> (exit = <<0>> /\ ReportsOf("Confirmed") # {})
    /\ (flow = "announcePartial" /\ (hL \in nodeFailed \/ hB \in nodeFailed))
          ~> (exit = <<1>> /\ ReportsOf("Failed") # {})

\* C18: when the PartialCosignature command has run, every pending partial
\* transaction of the account that the account had not signed has a
\* cosignature produced for it and submitted through announceCosignature.
C18_EveryUnsignedPendingCosigned ==
    (contract = "PartialCosignature" /\ cpc = "done") =>
        \A i \in DOMAIN pending :
            ~pending[i].signed =>
                /\ \E j \in DOMAIN cosigs : cosigs[j].parent = pending[i].hash
                /\ \E j \in DOMAIN bcalls :
                       /\ bcalls[j].endpoint = "announceCosignature"
                       /\ bcalls[j].tx = pending[i].hash

\* C19: a command whose transaction set the actor alone can sign (CreateAsset,
\* OpenTimestamp) calls announce and creates no hash lock; a command whose
\* set needs another party's cosignature (RequestAsset, EscrowAsset, the
\* security-token and governance commands) signs a bonded aggregate, creates
\* a hash lock for it and calls announcePartial with both.
C19_ProtocolByWhoSigns ==
    /\ \A i \in DOMAIN bcalls :
         /\ Len(signedTx) = 1
         /\ IF signedTx[1].signers \subseteq {actor}
            THEN /\ bcalls[i].endpoint = "announce"
                 /\ bcalls[i].lock = <<>>
                 /\ locks = <<>>
            ELSE /\ bcalls[i].endpoint = "announcePartial"
                 /\ signedTx[1].kind = "bonded"
                 /\ Len(locks) = 1
                 /\ bcalls[i].lock = locks
    /\ (cpc = "done" /\ contract \in {"CreateAsset", "OpenTimestamp"}) =>
         /\ Len(bcalls) = 1
         /\ bcalls[1].endpoint = "announce"
         /\ locks = <<>>
    /\ (cpc = "done" /\ contract \in {"RequestAsset", "EscrowAsset"}
                                      \cup SecurityContracts
                                      \cup GovernanceContracts) =>
         /\ Len(bcalls) = 1
         /\ bcalls[1].endpoint = "announcePartial"
         /\ Len(locks) = 1

\* C19 witness: an escrow has been sent through announcePartial with its
\* hash lock.
C19_Witness ==
    /\ contract = "EscrowAsset"
    /\ cpc = "done"
    /\ Len(bcalls) = 1
    /\ bcalls[1].endpoint = "announcePartial"
    /\ bcalls[1].lock # <<>>

\* C20: a two-phase command creates exactly one hash lock per run; the lock
\* references the signed bonded aggregate that the same announcePartial call
\* receives, and no other aggregate.
C20_OneLockPerBondedAggregate ==
    /\ Len(locks) <= 1
    /\ \A i \in DOMAIN locks :
         /\ Len(signedTx) = 1
         /\ locks[i].ref = signedTx[1].hash
    /\ \A i \in DOMAIN bcalls :
         bcalls[i].endpoint = "announcePartial" =>
             /\ Len(locks) = 1
             /\ bcalls[i].lock = <<locks[1]>>
             /\ locks[1].ref = bcalls[i].tx
    /\ (cpc = "done" /\ TwoPhase(contract)) =>
         /\ Len(locks) = 1
         /\ Cardinality({i \in DOMAIN bcalls :
                            bcalls[i].endpoint = "announcePartial"}) = 1

\* C20 witness: a request has been sent with the one hash lock made for its
\* signed aggregate.
C20_Witness ==
    /\ contract = "RequestAsset"
    /\ cpc = "done"
    /\ Len(locks) = 1
    /\ Len(bcalls) = 1
    /\ bcalls[1].tx = hB
    /\ locks[1].ref = hB

\* C21: in the request and escrow commands every hash lock lasts 1000 blocks
\* and deposits N * 1,000,000 units of the asset named by a lock override
\* "N asset", or 10,000,000 units of the command's default asset (symbol.xym
\* in RequestAsset and EscrowAsset) when no override is given.
C21_LockDeposit ==
    contract \in BondedContracts =>
        \A i \in DOMAIN locks :
            /\ locks[i].duration = 1000
            /\ IF lockInput = <<>>
               THEN /\ locks[i].mosaic.amount = 10000000
                    /\ locks[i].mosaic.asset = DefaultLockAsset(contract)
                    /\ contract \in {"RequestAsset", "EscrowAsset"}
                         => locks[i].mosaic.asset = "symbol.xym"
               ELSE /\ Len(lockInput) = 2
                    /\ locks[i].mosaic.amount = lockInput[1] * 1000000
                    /\ locks[i].mosaic.asset = lockInput[2]

\* C21 witness: an escrow with the override "5 other.asset" has created its
\* hash lock of 5,000,000 units of other.asset.
C21_Witness ==
    /\ contract = "EscrowAsset"
    /\ lockInput = <<5, "other.asset">>
    /\ Len(locks) = 1
    /\ locks[1].mosaic = [asset |-> "other.asset", amount |-> 5000000]
    /\ locks[1].duration = 1000

\* C22: whenever the reading of the inputs of a request or escrow command
\* raised an error (a failing prompt or flag, a malformed asset entry, a
\* malformed lock override), the command caught it and reported it through
\* Contract.error, the process exited with code 1, and nothing was signed or
\* submitted.
C22_ResolutionErrorsCaughtLocally ==
    (contract \in BondedContracts /\ raised # <<>>) =>
        /\ ReportsOf("Failed") # {}
        /\ exit = <<1>>
        /\ signedTx = <<>>
        /\ locks = <<>>
        /\ bcalls = <<>>
        /\ calls = <<>>

\* C23: every OptionsResolver call and every question of a run, the final
\* confirmation included, is made before the command calls the broadcaster,
\* and no step of a broadcaster operation resolves a parameter.
C23_ResolutionBeforeBroadcaster ==
    [][resolutions' # resolutions =>
          /\ bcalls = <<>>
          /\ flow = "none"
          /\ calls = <<>>
          /\ ~BroadcasterNext]_vars

\* C23 witness: the broadcaster has submitted a transaction for a command that
\* resolved its parameters and asked its final confirmation.
C23_Witness ==
    /\ contract = "TransferSecurity"
    /\ ~yes
    /\ resolutions = Len(Params(contract)) + 1
    /\ flow = "announcePartial"
    /\ SubmitsOf(hL) # {}

\* the transaction whose confirmation ends the operation
TrackedHash(f) ==
    IF f = "announcePartial" THEN hB ELSE FirstHash(f)

\* C24: every Confirmed report prints the explorer URL of the tracked
\* transaction's hash (in announcePartial the bonded aggregate's, not the hash
\* lock's), and every Failed report made for a status event prints that
\* event's status code and the status URL of the failed transaction's hash.
C24_ReportsNameTheTransaction ==
    /\ \A i \in DOMAIN reports :
         reports[i].kind = "Confirmed" =>
             SuccessText(reports[i]).viewTransaction
                 = <<explorerUrl, "/transaction/", TrackedHash(flow)>>
    /\ \A i \in DOMAIN reports :
         (reports[i].kind = "Failed" /\ reports[i].hash # "none") =>
             \E j \in DOMAIN observed :
                 /\ observed[j].chan = "status"
                 /\ ErrorText(reports[i]).code = StatusCode(observed[j])
                 /\ ErrorText(reports[i]).viewStatus
                      = <<endpointUrl, "/transaction/", observed[j].hash, "/status">>

\* C24 witness: announcePartial ended Confirmed, printing the bonded
\* aggregate's explorer URL.
C24_Witness ==
    /\ flow = "announcePartial"
    /\ exit = <<0>>
    /\ hL \in nodeConfirmed
    /\ \E i \in DOMAIN reports :
         /\ reports[i].kind = "Confirmed"
         /\ SuccessText(reports[i]).viewTransaction = <<explorerUrl, "/transaction/", hB>>

\* C25: two builds of the same kind with identical parameters, made by
\* the same factory at the same clock reading, yield identical unsigned
\* transactions, mosaic definitions included.
C25_FactoryDeterministic ==
    \A i, j \in DOMAIN builds :
        (/\ builds[i].kind = builds[j].kind
         /\ builds[i].params = builds[j].params
         /\ builds[i].context = builds[j].context
         /\ builds[i].now = builds[j].now)
            => builds[i].tx = builds[j].tx

\* C26: the factory returned by each TransactionFactory.create call has the
\* endpointUrl and the networkType given to that call.
C26_FactoryMatchesArguments ==
    \A i \in DOMAIN creates :
        /\ creates[i].returned.endpointUrl = creates[i].endpointUrl
        /\ creates[i].returned.networkType = creates[i].networkType

\* C27: in announcePartial no partial-added, cosignature-added or confirmed
\* event for the bonded aggregate that the node emits after the aggregate's
\* submission is lost for want of an active handler.
C27_NoBondedEventLost ==
    flow = "announcePartial" =>
        \A e \in lost :
            ~(e.hash = hB /\ e.chan \in {"partialAdded", "cosignatureAdded",
                                         "confirmed"})

\* C28: when PartialCosignature has run with a transaction hash given, only
\* the pending transaction with that hash was co-signed; with no hash given,
\* every pending transaction not yet signed by the account was co-signed.
C28_HashSelectsTransaction ==
    (contract = "PartialCosignature" /\ cpc = "done") =>
        IF hashInput # ""
        THEN \A j \in DOMAIN cosigs : cosigs[j].parent = hashInput
        ELSE \A i \in DOMAIN pending :
                 ~pending[i].signed =>
                     \E j \in DOMAIN cosigs : cosigs[j].parent = pending[i].hash

\* C29: PartialCosignature produces and submits no cosignature, and does not
\* enter executeContract, when the account has no pending partial
\* transaction; and every cosignature it produces is for a pending
\* transaction the account had not signed, one per such transaction.
C29_NoCosignatureWithoutNeed ==
    contract = "PartialCosignature" =>
        /\ pending = <<>> =>
               /\ cosigs = <<>>
               /\ bcalls = <<>>
               /\ cpc # "pipe"
        /\ \A j \in DOMAIN cosigs :
               \E i \in 1..(cursor - 1) :
                   /\ pending[i].hash = cosigs[j].parent
                   /\ ~pending[i].signed
        /\ Len(cosigs) = Cardinality({i \in 1..(cursor - 1) : ~pending[i].signed})

\* C29 witness: of two pending transactions the one already signed was
\* skipped and the other one co-signed.
C29_Witness ==
    /\ contract = "PartialCosignature"
    /\ cpc = "done"
    /\ pending = << [hash |-> hP, signed |-> TRUE], [hash |-> hX, signed |-> FALSE] >>
    /\ cosigs = << [parent |-> hX] >>

\* C30: in the commands that ask a final confirmation, a run without --yes
\* in which the user answers no signs nothing, submits nothing and opens no
\* subscription; with --yes the question is not asked, the run goes on to
\* executeContract, and what it then calls is announcePartial.
C30_ConfirmationGatesTheRun ==
    /\ []((contract \in ConfirmingContracts /\ ~yes /\ answer = "n") =>
             /\ signedTx = <<>>
             /\ locks = <<>>
             /\ bcalls = <<>>
             /\ flow = "none"
             /\ calls = <<>>
             /\ subs = <<>>
             /\ ~listenerOpen)
    /\ []((contract \in ConfirmingContracts /\ yes) =>
             /\ cpc # "declined"
             /\ cpc = "done" => (Len(bcalls) = 1 /\ flow = "announcePartial"))
    /\ [][(cpc = "confirm" /\ yes) =>
             (resolutions' = resolutions /\ cpc' = "execute")]_vars

\* C30 witness: a transfer of a security token was declined at the final
\* question.
C30_Witness ==
    /\ contract = "TransferSecurity"
    /\ cpc = "declined"
    /\ ~yes
    /\ resolutions = Len(Params(contract)) + 1

RECURSIVE Pow10(_)
Pow10(k) == IF k = 0 THEN 1 ELSE 10 * Pow10(k - 1)

\* the integers whose decimal form has at most MaxLen characters
EnteredIntegers == (1 - Pow10(MaxLen - 1))..(Pow10(MaxLen) - 1)

\* the integer the user entered: {n} when the entry is the number n or its
\* decimal form, {} when the entry is no integer
EnteredInteger(v) == {n \in EnteredIntegers : JSToString(v) = NumberToString(n)}

\* C31: in TransferSecurity and UnlockSecurityBalance the number of shares
\* passed to the token command is at least 1, and it is 1 whenever the
\* integer entered is 0 or less
C31_AtLeastOneShare ==
    \A i \in DOMAIN tokenCalls : \A n \in EnteredInteger(entered) :
        LET amount == tokenCalls[i].amount
        IN  /\ amount.t = "number"
            /\ amount.n >= 1
            /\ n <= 0 => amount.n = 1

\* C34: the mosaic definition of CreateAsset is built with 0 when the integer
\* entered is below 0, with 6 when it is above 6, and with the integer
\* entered otherwise
C34_DivisibilityClamped ==
    \A i \in DOMAIN builds : \A d \in EnteredInteger(entered) :
        builds[i].kind = "mosaicDefinition" =>
            ToNumber(builds[i].tx.divisibility)
                = JSNumber(IF d < 0 THEN 0 ELSE IF d > 6 THEN 6 ELSE d)

\* a mosaic definition built with 6 after the user typed 77, and one built
\* with 0 after the command line gave -2
C34_Witness ==
    \E i \in DOMAIN builds :
        \/ entered = JSString(<<"7", "7">>)
             /\ builds[i].tx.divisibility = JSNumber(6)
        \/ entered = JSNumber(-2) /\ builds[i].tx.divisibility = JSNumber(0)

\* the levels of the name that do not exist on the network, root first
MissingLevels ==
    SelectSeq([i \in DOMAIN Split(namespaceName) |->
                   FullName(Split(namespaceName), i)],
              LAMBDA level : level \notin existing)

\* getNamespaceRegistrations has resolved
RegistrationsReturned == ppc \in {"mosaic", "prepared"}

C33_TooManyLevelsRejected ==
    /\ Len(Split(namespaceName)) > 3 =>
           /\ ppc \in {"namespaces", "thrown"}
           /\ nsCalls = <<>>
           /\ registerTxes = <<>>
           /\ builds = <<>>
    /\ ppc = "thrown" => Len(Split(namespaceName)) > 3

\* a name of four levels was rejected
C33_Witness ==
    /\ ppc = "thrown"
    /\ Len(Split(namespaceName)) = 4
    /\ nsCalls = <<>>

\* the node the user chose: the URL supplied, when the custom node question
\* was answered with yes and the URL is not empty, the default node otherwise
ChosenNode ==
    IF keyInYN(useCustomNode) = "true" /\ apiUrl # "" THEN apiUrl
    ELSE DEFAULT_NODE_URL

\* something was signed or handed to the broadcaster for submission
SignedOrSubmitted ==
    signedTx # <<>> \/ locks # <<>> \/ cosigs # <<>> \/ bcalls # <<>> \/ calls # <<>>

====
